---- MODULE Spec2Model ----
(***************************************************************************)
(* Model of bin/boinc2docker_create_work.py: the packaging of a Docker     *)
(* image into BOINC input files (one tar + gz per layer, one for the image *)
(* metadata), the rendering of the boinc_app startup script, the input     *)
(* template, and the submission through create_work, with the shared       *)
(* download directory (the cache) and the per-run temporary directory.     *)
(***************************************************************************)
EXTENDS Integers, Sequences, FiniteSets, TLC

(***************************************************************************)
(* Bounds of the model.                                                    *)
(***************************************************************************)
\* Number of distinct layer ids in the local Docker image store.
NumLayers == 2
\* Longest argument list of a command given to boinc2docker_create_work.
MaxArgs == 2

None == "None"

(***************************************************************************)
(* The local Docker image store (docker inspect / docker save).            *)
(***************************************************************************)
LayerIds == 1..NumLayers
\* The content ids (digests) of the two images of the store, A and B.
ImageIds == {1, 2}

\* manifest[0]['Layers'] of the exported image, as layer ids in overlay order.
\* Image 1 is made of every layer, listed in descending id order; image 2 is
\* layer 1 alone, which it shares with image 1.
ManifestLayers(image_id) ==
    IF image_id = 1
    THEN [k \in 1..NumLayers |-> NumLayers + 1 - k]
    ELSE <<1>>

\* An image reference as given by the caller: a repository name and a tag,
\* tag "" standing for a reference that holds no ':'.
ImageRefs ==
    { [name |-> "imgA", tag |-> ""],
      [name |-> "imgA", tag |-> "latest"],
      [name |-> "imgB", tag |-> "latest"] }

\* A caller passing None for the image.
NoneImage == [name |-> None, tag |-> ""]

\* docker inspect --format "{{ .Id }}" of a tagged reference.
DockerId(image) ==
    IF image.name = "imgA" THEN 1 ELSE 2

(***************************************************************************)
(* Text: a string is a sequence of one-character strings.                  *)
(***************************************************************************)
RECURSIVE Join(_, _)
\* sep.join(parts)
Join(sep, parts) ==
    IF parts = <<>> THEN <<>>
    ELSE IF Len(parts) = 1 THEN parts[1]
    ELSE parts[1] \o sep \o Join(sep, Tail(parts))

RECURSIVE SplitFrom(_, _)
\* str.split(): the maximal runs of non-blank characters of s, cur being the
\* run read so far.
SplitFrom(s, cur) ==
    IF s = <<>> THEN (IF cur = <<>> THEN <<>> ELSE <<cur>>)
    ELSE IF Head(s) = " "
         THEN (IF cur = <<>> THEN <<>> ELSE <<cur>>) \o SplitFrom(Tail(s), <<>>)
         ELSE SplitFrom(Tail(s), Append(cur, Head(s)))

Split(s) == SplitFrom(s, <<>>)

\* repr() of a str without quotes or escapes in it.
Repr(w) == <<"'">> \o w \o <<"'">>

\* One element of the command list: a str (text) or a list of str (words).
StrElem(w) == [kind |-> "str", text |-> w, words |-> <<>>]
ListElem(ws) == [kind |-> "list", text |-> <<>>, words |-> ws]

\* str() of one element of the command list: a str is itself, a list is
\* '[' + ', '.join(repr(w)) + ']'.
PyStr(x) ==
    IF x.kind = "str" THEN x.text
    ELSE <<"[">>
         \o Join(<<",", " ">>, [i \in 1..Len(x.words) |-> Repr(x.words[i])])
         \o <<"]">>

\* The commands a caller passes: None, a str (text), or a list of str (args).
RawCommand(s) == [type |-> "str", text |-> s, args |-> <<>>]
ArgsCommand(ws) == [type |-> "list", text |-> <<>>, args |-> ws]
NoCommand == [type |-> "None", text |-> <<>>, args |-> <<>>]

Words == { <<"a">>, <<"b">> }
WordLists == UNION { [1..n -> Words] : n \in 0..MaxArgs }
Commands ==
    {NoCommand}
    \cup { RawCommand(Join(<<" ">>, ws)) : ws \in WordLists }
    \cup { ArgsCommand(ws) : ws \in WordLists }

\* Line 51: command=None becomes "".
DefaultCommand(command) ==
    IF command.type = "None" THEN RawCommand(<<>>) ELSE command

\* Line 80: a str command becomes the one-element list [command.split()];
\* a list command is used as it is.
CommandList(command) ==
    IF command.type = "str"
    THEN << ListElem(Split(command.text)) >>
    ELSE [i \in 1..Len(command.args) |-> StrElem(command.args[i])]

\* Line 81: ' '.join('"'+str(x)+'"' for x in command)
RenderCommand(command) ==
    LET elems == CommandList(command)
    IN  Join(<<" ">>,
             [i \in 1..Len(elems) |-> <<"\"">> \o PyStr(elems[i]) \o <<"\"">>])

(***************************************************************************)
(* File names, staged files and the input template.                        *)
(***************************************************************************)
\* fmt("layer_{layer_id}.tar") and fmt("image_{image_id}.tar"): the name is a
\* function of the content id alone.
LayerFilename(layer_id) ==
    [kind |-> "layer", id |-> layer_id, base |-> "", contents |-> ""]
ImageFilename(image_id) ==
    [kind |-> "image", id |-> image_id, base |-> "", contents |-> ""]

CacheFiles ==
    { LayerFilename(l) : l \in LayerIds } \cup { ImageFilename(i) : i \in ImageIds }

\* (basename, contents) of a file whose contents the job carries inline.
InlineFile(base, contents) ==
    [kind |-> "inline", id |-> 0, base |-> base, contents |-> contents]

\* An open_name: a directory under the job's slot and a base name.
OpenName(dir, f) == [dir |-> dir, kind |-> f.kind, id |-> f.id, base |-> f.base]

\* basename(open_name)
Basename(open_name) == open_name.base

StagedFile(open_name, file, flags) ==
    [open_name |-> open_name, file |-> file, flags |-> flags]

\* Line 110.
layer_flags == <<"sticky", "no_delete", "gzip">>

\* The input_files arguments a caller passes: None, or a list of
\* (open_name, contents, flags).
InputFileArgs ==
    { <<>>,
      << [open_name |-> OpenName("shared", InlineFile("foo", "")),
          contents |-> "bar", flags |-> <<"gzip">>] >> }

\* Lines 74-77: the caller's extra files become (open_name, (basename,
\* contents), flags).
CustomFiles(input_files) ==
    [i \in 1..Len(input_files) |->
        StagedFile(input_files[i].open_name,
                   InlineFile(Basename(input_files[i].open_name),
                              input_files[i].contents),
                   input_files[i].flags)]

Entrypoints == {None, "sh"}
Hooks == {None, "date"}

\* Line 82.
RenderEntrypoint(entrypoint) ==
    IF entrypoint = None THEN <<>> ELSE <<"--entrypoint ", entrypoint>>

\* Lines 83-107: the boinc_app script. Its fixed text reassembles the image
\* with  cat /root/shared/image/*.tar | tar xi ; the parts that vary are the
\* hooks and the docker run line.
RenderScript(prerun, entrypoint, image, command, postrun) ==
    [ reassemble |-> "cat /root/shared/image/*.tar",
      prerun     |-> prerun,
      entrypoint |-> RenderEntrypoint(entrypoint),
      image      |-> image,
      command    |-> RenderCommand(command),
      postrun    |-> postrun ]

NoScript == RenderScript("", None, NoneImage, ArgsCommand(<<>>), "")

\* Line 108: ('shared/boinc_app', ('boinc_app', script), []). The contents
\* "script" stand for the rendered text, which the run keeps in its script
\* field.
ScriptFile(script) ==
    [ open_name |-> OpenName("shared", InlineFile("boinc_app", "")),
      file      |-> InlineFile("boinc_app", "script"),
      flags     |-> <<>> ]

\* Line 117.
LayerStaged(layer_id) ==
    StagedFile(OpenName("shared/image", LayerFilename(layer_id)),
               LayerFilename(layer_id), layer_flags)

\* Line 125.
ImageStaged(image_id) ==
    StagedFile(OpenName("shared/image", ImageFilename(image_id)),
               ImageFilename(image_id), layer_flags)

\* A variant of lines 136-138 without the loop over the flags (line 138).
FileInfoUnflagged(i, flags) ==
    [tag |-> "file_info", number |-> i, flags |-> <<>>, refs |-> <<>>]

\* Lines 136-138: the file_info element of staged file number i.
FileInfo(i, flags) ==
    [tag |-> "file_info", number |-> i, flags |-> flags, refs |-> <<>>]

\* Lines 139-142: the file_ref element of staged file number i.
FileRef(i, open_name) ==
    [file_number |-> i, open_name |-> open_name, copy_file |-> TRUE]

\* A variant of enumerate that counts from 1.
EnumIndexFromOne(k) == k

\* enumerate(input_files) counts from 0.
EnumIndex(k) == k - 1

\* Lines 133-142: the children of <input_template>, in document order. The
\* workunit element is created first (line 134) and each file_info is
\* appended to the root after it.
BuildTemplate(input_files) ==
    << [tag |-> "workunit", number |-> 0 - 1, flags |-> <<>>,
        refs |-> [k \in 1..Len(input_files) |->
                     FileRef(EnumIndex(k), input_files[k].open_name)]] >>
    \o [k \in 1..Len(input_files) |->
           FileInfo(EnumIndex(k), input_files[k].flags)]

\* The order of two file names in the expansion of a shell glob: sorted by
\* name, so image_<id>.tar comes before every layer_<id>.tar, and two names of
\* a kind are ordered by their id.
NameBefore(a, b) ==
    \/ a.kind = "image" /\ b.kind = "layer"
    \/ a.kind = b.kind /\ a.id < b.id

RECURSIVE Sorted(_)
Sorted(names) ==
    IF names = {} THEN <<>>
    ELSE LET first == CHOOSE a \in names :
                          \A b \in names \ {a} : NameBefore(a, b)
         IN  <<first>> \o Sorted(names \ {first})

\* Line 89: cat /root/shared/image/*.tar, in the job: the staged files opened
\* under shared/image, in the order the shell expands the glob to.
ReassembleOrder(input_files) ==
    Sorted({ input_files[k].file : k \in
               { j \in 1..Len(input_files) :
                   input_files[j].open_name.dir = "shared/image" } })

\* A variant of line 147 that lists the files last to first.
BackingFilesReversed(input_files) ==
    [k \in 1..Len(input_files) |-> input_files[Len(input_files) + 1 - k].file]

\* Line 147: [f for _,f,_ in input_files]
BackingFiles(input_files) ==
    [k \in 1..Len(input_files) |-> input_files[k].file]

(***************************************************************************)
(* State.                                                                  *)
(***************************************************************************)
\* The runs of boinc2docker_create_work that may be in flight together.
Runs == {1, 2}

VARIABLES
    tar,        \* download dir: state of each <name>.tar
    gz,         \* download dir: state of each <name>.tar.gz
    run,        \* per run: the locals of boinc2docker_create_work and its pc
    submitted   \* history: per image id, the cache files of the first Submit

vars == <<tar, gz, run, submitted>>

\* A .tar of the download dir: absent; part (created, not completely written;
\* of an image archive: manifest.json not yet in it); partmf (image archive
\* only: manifest.json is in it, later members are not); full.
TarStates == {"absent", "part", "partmf", "full"}
\* A .tar.gz: absent, part, full, or bad: a finished compression of a tar that
\* was not completely written while gzip read it.
GzStates == {"absent", "part", "full", "bad"}

Exists(f) == tar[f] # "absent"

NoFiles == <<>>

\* The arguments of one call of boinc2docker_create_work.
Call(image, command, input_files, entrypoint, prerun, postrun) ==
    [ image |-> image, command |-> command, input_files |-> input_files,
      entrypoint |-> entrypoint, prerun |-> prerun, postrun |-> postrun ]

IdleRun ==
    [ pc            |-> "idle",
      image         |-> NoneImage,
      command       |-> NoCommand,
      input_arg     |-> <<>>,
      entrypoint    |-> None,
      prerun        |-> None,
      postrun       |-> None,
      tmpdir        |-> [exists |-> FALSE, export |-> FALSE, template |-> FALSE],
      image_id      |-> 0,
      need_extract  |-> FALSE,
      manifest      |-> <<>>,
      input_files   |-> NoFiles,
      script        |-> NoScript,
      li            |-> 0,
      srcok         |-> FALSE,
      template      |-> <<>>,
      exc           |-> "none",
      result        |-> "none",
      \* history of the run
      call          |-> Call(NoneImage, NoCommand, <<>>, None, None, None),
      submit_files  |-> <<>>,
      wu_template   |-> <<>>,
      after_submit  |-> FALSE,
      wrote         |-> {},
      exported      |-> FALSE,
      hit           |-> FALSE,
      cleanup_ran   |-> FALSE,
      submit_called |-> FALSE,
      misuse        |-> {},
      log           |-> <<>> ]

Init ==
    /\ tar = [f \in CacheFiles |-> "absent"]
    /\ gz = [f \in CacheFiles |-> "absent"]
    /\ run = [r \in Runs |-> IdleRun]
    /\ submitted = [i \in ImageIds |-> <<>>]

Logged(rec, step) == [rec EXCEPT !.log = Append(@, step)]

\* The cache file a run is writing now, if any.
WritingTar(r) ==
    IF run[r].pc = "layer_tar_w"
    THEN {LayerFilename(run[r].manifest[run[r].li])}
    ELSE IF run[r].pc \in {"image_tar_w", "image_tar_m"}
    THEN {ImageFilename(run[r].image_id)}
    ELSE {}

WritingGz(r) ==
    IF run[r].pc = "layer_gz_w"
    THEN {LayerFilename(run[r].manifest[run[r].li])}
    ELSE IF run[r].pc = "image_gz_w"
    THEN {ImageFilename(run[r].image_id)}
    ELSE {}

OtherWriters(r, f) == { q \in Runs \ {r} : f \in WritingTar(q) }

\* Another run is writing f or its .gz right now.
BeingWritten(r, f) ==
    \E q \in Runs \ {r} : f \in WritingTar(q) \cup WritingGz(q)

(***************************************************************************)
(* boinc2docker_create_work, step by step.                                 *)
(***************************************************************************)
\* Line 47: the call begins, mkdtemp() creates the temporary directory.
Start(r, call) ==
    /\ run[r].pc \in {"idle", "done"}
    /\ run' = [run EXCEPT ![r] =
          [IdleRun EXCEPT
              !.pc = "defaults",
              !.call = call,
              !.image = call.image,
              !.command = call.command,
              !.input_arg = call.input_files,
              !.entrypoint = call.entrypoint,
              !.prerun = call.prerun,
              !.postrun = call.postrun,
              !.tmpdir = [exists |-> TRUE, export |-> FALSE, template |-> FALSE],
              !.log = <<"mkdtemp">>]]
    /\ UNCHANGED <<tar, gz, submitted>>

\* A variant without line 53: the reference is used as given.
DefaultTagOmitted(image) == image

\* Line 53: if ':' not in image: image+=':latest'
DefaultTag(image) ==
    IF image.tag = "" THEN [image EXCEPT !.tag = "latest"] ELSE image

DefaultHook(hook) == IF hook = None THEN "" ELSE hook

\* Lines 49-53, before the try: the defaults of the arguments. An image that
\* is no string (None) makes line 53 raise TypeError.
Defaults(r) ==
    /\ run[r].pc = "defaults"
    /\ run' = [run EXCEPT ![r] =
          IF run[r].image = NoneImage
          THEN Logged([@ EXCEPT !.pc = "done", !.result = "TypeError"], "raise")
          ELSE Logged([@ EXCEPT
                  !.pc = "inspect",
                  !.prerun = DefaultHook(@),
                  !.postrun = DefaultHook(@),
                  !.command = DefaultCommand(@),
                  !.image = DefaultTag(@)], "defaults")]
    /\ UNCHANGED <<tar, gz, submitted>>

\* Lines 58-60: docker inspect gives the image id, which names the image file.
Inspect(r) ==
    /\ run[r].pc = "inspect"
    /\ run' = [run EXCEPT ![r] =
          Logged([@ EXCEPT
              !.pc = "check",
              !.image_id = DockerId(run[r].image),
              !.after_submit = submitted[DockerId(run[r].image)] # <<>>],
              "inspect")]
    /\ UNCHANGED <<tar, gz, submitted>>

\* A variant of line 62 that exports whether or not the image file exists.
NeedExtractAlways(image_id) == TRUE

\* Line 62: need_extract is decided by exists(image_path) alone.
NeedExtract(image_id) == ~ Exists(ImageFilename(image_id))

ExistsImage(r) ==
    /\ run[r].pc = "check"
    /\ run' = [run EXCEPT ![r] =
          Logged([@ EXCEPT
              !.need_extract = NeedExtract(run[r].image_id),
              !.hit = ~ NeedExtract(run[r].image_id),
              !.pc = IF NeedExtract(run[r].image_id) THEN "export" ELSE "readcached"],
              "exists")]
    /\ UNCHANGED <<tar, gz, submitted>>

\* Line 65: the layer list is read from manifest.json inside the cached image
\* archive; an archive that does not hold it yet makes the read raise.
ReadCached(r) ==
    /\ run[r].pc = "readcached"
    /\ run' = [run EXCEPT ![r] =
          IF tar[ImageFilename(run[r].image_id)] \in {"partmf", "full"}
          THEN Logged([@ EXCEPT
                  !.pc = "script",
                  !.manifest = ManifestLayers(run[r].image_id),
                  !.misuse = IF BeingWritten(r, ImageFilename(run[r].image_id))
                             THEN @ \cup {"read"} ELSE @], "readcached")
          ELSE Logged([@ EXCEPT !.pc = "cleanup", !.exc = "error"], "FAIL")]
    /\ UNCHANGED <<tar, gz, submitted>>

\* Lines 69-70: docker save | tar xf - -C tmpdir, then manifest.json is read
\* from the export.
Export(r) ==
    /\ run[r].pc = "export"
    /\ run' = [run EXCEPT ![r] =
          Logged([@ EXCEPT
              !.pc = "script",
              !.tmpdir.export = TRUE,
              !.exported = TRUE,
              !.manifest = ManifestLayers(run[r].image_id)], "export")]
    /\ UNCHANGED <<tar, gz, submitted>>

\* Lines 73-108: the custom files, then the boinc_app script as a staged file.
Script(r) ==
    /\ run[r].pc = "script"
    /\ LET script == RenderScript(run[r].prerun, run[r].entrypoint, run[r].image,
                                  run[r].command, run[r].postrun)
       IN run' = [run EXCEPT ![r] =
             Logged([@ EXCEPT
                 !.pc = "layer",
                 !.li = 1,
                 !.script = script,
                 !.input_files = Append(CustomFiles(run[r].input_arg),
                                        ScriptFile(script))], "script")]
    /\ UNCHANGED <<tar, gz, submitted>>

\* A variant of line 118 without the test of exists(layer_path).
ExtractLayerAlways(need_extract, layer_id) == need_extract

\* A variant of line 118 with the test of exists(layer_path) turned round.
ExtractLayerPresent(need_extract, layer_id) ==
    need_extract /\ Exists(LayerFilename(layer_id))

\* Lines 113-118: the next layer of the manifest: its path is resolved, the
\* layer is staged, and it is extracted only if need_extract and its file does
\* not exist.
ExtractLayer(need_extract, layer_id) ==
    need_extract /\ ~ Exists(LayerFilename(layer_id))

\* A variant of the loop of line 113 that visits the layers last to first.
LayerOrderReversed(manifest) ==
    [k \in 1..Len(manifest) |-> manifest[Len(manifest) + 1 - k]]

\* The order in which the loop of line 113 visits the layers.
LayerOrder(manifest) == manifest

LayerStage(r) ==
    /\ run[r].pc = "layer"
    /\ run[r].li <= Len(run[r].manifest)
    /\ LET layer_id == LayerOrder(run[r].manifest)[run[r].li]
       IN run' = [run EXCEPT ![r] =
             Logged([@ EXCEPT
                 !.input_files = Append(@, LayerStaged(layer_id)),
                 !.misuse = IF /\ run[r].need_extract
                               /\ Exists(LayerFilename(layer_id))
                               /\ BeingWritten(r, LayerFilename(layer_id))
                            THEN @ \cup {"skip"} ELSE @,
                 !.pc = IF ExtractLayer(run[r].need_extract, layer_id)
                        THEN "layer_tar" ELSE "layer",
                 !.li = IF ExtractLayer(run[r].need_extract, layer_id)
                        THEN @ ELSE @ + 1], "layer")]
    /\ UNCHANGED <<tar, gz, submitted>>

\* The state a .tar is left in when run r ends its write of f: complete,
\* unless another run is still writing the same file.
Written(r, f) == IF OtherWriters(r, f) = {} THEN "full" ELSE "part"

\* The state of a .tar.gz that gzip has finished: gzip read the tar from
\* GzipBegin to GzipEnd.
Compressed(srcok, f) == IF srcok /\ tar[f] = "full" THEN "full" ELSE "bad"

CurrentLayerFile(r) == LayerFilename(LayerOrder(run[r].manifest)[run[r].li])

\* Line 120: tar cvf {layer_path} opens (creates or truncates) the file under
\* its final name ...
LayerTarBegin(r) ==
    /\ run[r].pc = "layer_tar"
    /\ tar' = [tar EXCEPT ![CurrentLayerFile(r)] = "part"]
    /\ run' = [run EXCEPT ![r] =
          Logged([@ EXCEPT !.pc = "layer_tar_w",
                           !.wrote = @ \cup {CurrentLayerFile(r)}], "layer_tar")]
    /\ UNCHANGED <<gz, submitted>>

\* ... and ends having written all of it.
LayerTarEnd(r) ==
    /\ run[r].pc = "layer_tar_w"
    /\ tar' = [tar EXCEPT ![CurrentLayerFile(r)] = Written(r, CurrentLayerFile(r))]
    /\ run' = [run EXCEPT ![r].pc = "layer_gz"]
    /\ UNCHANGED <<gz, submitted>>

\* Line 121: gzip -k {layer_path} creates {layer_path}.gz ...
LayerGzipBegin(r) ==
    /\ run[r].pc = "layer_gz"
    /\ gz[CurrentLayerFile(r)] = "absent"
    /\ gz' = [gz EXCEPT ![CurrentLayerFile(r)] = "part"]
    /\ run' = [run EXCEPT ![r] =
          Logged([@ EXCEPT !.pc = "layer_gz_w",
                           !.srcok = tar[CurrentLayerFile(r)] = "full"], "layer_gz")]
    /\ UNCHANGED <<tar, submitted>>

\* ... and ends; the loop goes on to the next layer.
LayerGzipEnd(r) ==
    /\ run[r].pc = "layer_gz_w"
    /\ gz' = [gz EXCEPT ![CurrentLayerFile(r)] =
                 Compressed(run[r].srcok, CurrentLayerFile(r))]
    /\ run' = [run EXCEPT ![r].pc = "layer", ![r].li = @ + 1]
    /\ UNCHANGED <<tar, submitted>>

\* Lines 125-126: after the loop the image file is staged; it is written only
\* if need_extract.
ImageStage(r) ==
    /\ run[r].pc = "layer"
    /\ run[r].li > Len(run[r].manifest)
    /\ run' = [run EXCEPT ![r] =
          Logged([@ EXCEPT
              !.input_files = Append(@, ImageStaged(run[r].image_id)),
              !.pc = IF run[r].need_extract THEN "image_tar" ELSE "template"],
              "image")]
    /\ UNCHANGED <<tar, gz, submitted>>

CurrentImageFile(r) == ImageFilename(run[r].image_id)

\* Line 128: tar cvf {image_path} -C {tmpdir} {image_id}.json manifest.json
\* repositories: the file is opened under its final name, ...
ImageTarBegin(r) ==
    /\ run[r].pc = "image_tar"
    /\ tar' = [tar EXCEPT ![CurrentImageFile(r)] = "part"]
    /\ run' = [run EXCEPT ![r] =
          Logged([@ EXCEPT !.pc = "image_tar_w",
                           !.wrote = @ \cup {CurrentImageFile(r)}], "image_tar")]
    /\ UNCHANGED <<gz, submitted>>

\* ... manifest.json, its second member, is written, ...
ImageTarManifest(r) ==
    /\ run[r].pc = "image_tar_w"
    /\ tar' = [tar EXCEPT ![CurrentImageFile(r)] = "partmf"]
    /\ run' = [run EXCEPT ![r].pc = "image_tar_m"]
    /\ UNCHANGED <<gz, submitted>>

\* ... and the archive is ended.
ImageTarEnd(r) ==
    /\ run[r].pc = "image_tar_m"
    /\ tar' = [tar EXCEPT ![CurrentImageFile(r)] =
                  IF Written(r, CurrentImageFile(r)) = "full" THEN "full" ELSE @]
    /\ run' = [run EXCEPT ![r].pc = "image_gz"]
    /\ UNCHANGED <<gz, submitted>>

\* Line 129: gzip -k {image_path}
ImageGzipBegin(r) ==
    /\ run[r].pc = "image_gz"
    /\ gz[CurrentImageFile(r)] = "absent"
    /\ gz' = [gz EXCEPT ![CurrentImageFile(r)] = "part"]
    /\ run' = [run EXCEPT ![r] =
          Logged([@ EXCEPT !.pc = "image_gz_w",
                           !.srcok = tar[CurrentImageFile(r)] = "full"], "image_gz")]
    /\ UNCHANGED <<tar, submitted>>

ImageGzipEnd(r) ==
    /\ run[r].pc = "image_gz_w"
    /\ gz' = [gz EXCEPT ![CurrentImageFile(r)] =
                 Compressed(run[r].srcok, CurrentImageFile(r))]
    /\ run' = [run EXCEPT ![r].pc = "template"]
    /\ UNCHANGED <<tar, submitted>>

\* gzip -k refuses to overwrite a .gz that exists: it exits nonzero and
\* check_output raises.
GzipExists(r) ==
    /\ run[r].pc \in {"layer_gz", "image_gz"}
    /\ gz[IF run[r].pc = "layer_gz" THEN CurrentLayerFile(r)
          ELSE CurrentImageFile(r)] # "absent"
    /\ run' = [run EXCEPT ![r] =
          Logged([@ EXCEPT !.pc = "cleanup", !.exc = "error"], "FAIL")]
    /\ UNCHANGED <<tar, gz, submitted>>

\* A variant without the write of lines 143-144: the document is built and
\* its path handed on, but no file is written.
TemplateUnwritten(r) ==
    /\ run[r].pc = "template"
    /\ run' = [run EXCEPT ![r] =
          Logged([@ EXCEPT
              !.pc = "submit",
              !.template = BuildTemplate(run[r].input_files)], "template")]
    /\ UNCHANGED <<tar, gz, submitted>>

\* Lines 132-146: the template is built and written into tmpdir.
Template(r) ==
    /\ run[r].pc = "template"
    /\ run' = [run EXCEPT ![r] =
          Logged([@ EXCEPT
              !.pc = "submit",
              !.template = BuildTemplate(run[r].input_files),
              !.tmpdir.template = TRUE], "template")]
    /\ UNCHANGED <<tar, gz, submitted>>

\* The cache files among the staged files, in staged order.
CacheNames(input_files) ==
    SelectSeq(BackingFiles(input_files), LAMBDA f : f.kind # "inline")

\* Line 147: create_work is called with the backing files ...
SubmitCall(r) ==
    /\ run[r].pc = "submit"
    /\ run' = [run EXCEPT ![r] =
          Logged([@ EXCEPT
              !.pc = "submitting",
              !.submit_called = TRUE,
              !.submit_files = BackingFiles(run[r].input_files),
              !.wu_template = IF run[r].tmpdir.template
                              THEN run[r].template ELSE <<>>,
              !.misuse = IF \E k \in 1..Len(run[r].input_files) :
                               /\ run[r].input_files[k].file.kind # "inline"
                               /\ BeingWritten(r, run[r].input_files[k].file)
                         THEN @ \cup {"submit"} ELSE @], "submit")]
    /\ submitted' = [submitted EXCEPT ![run[r].image_id] =
                        IF @ = <<>> THEN CacheNames(run[r].input_files) ELSE @]
    /\ UNCHANGED <<tar, gz>>

\* ... and returns the job's name, which the function returns after the
\* finally clause.
SubmitReturn(r) ==
    /\ run[r].pc = "submitting"
    /\ run' = [run EXCEPT ![r].pc = "cleanup", ![r].result = "job"]
    /\ UNCHANGED <<tar, gz, submitted>>

(***************************************************************************)
(* Exceptions: lines 46 and 149-156.                                       *)
(***************************************************************************)
\* Where an external step of the try block (sh's check_output, the template
\* write, create_work) can raise.
FailPcs ==
    { "inspect", "export", "layer_tar", "layer_tar_w", "layer_gz", "layer_gz_w",
      "image_tar", "image_tar_w", "image_tar_m", "image_gz", "image_gz_w",
      "template", "submitting" }

CanFail(r) ==
    \/ run[r].pc \in FailPcs
    \/ run[r].pc = "layer" /\ run[r].li <= Len(run[r].manifest)

\* Where a run is inside the try block of lines 55-147.
TryPcs ==
    FailPcs \cup {"check", "readcached", "script", "layer", "submit"}

\* A gzip that is stopped removes the .gz it was writing if it gets to handle
\* the stop (keep = FALSE), and leaves it partly written if it is killed.
GzAbandoned(r, keep) ==
    [f \in CacheFiles |->
        IF f \in WritingGz(r) /\ ~ keep THEN "absent" ELSE gz[f]]

\* A variant in which a raised exception is swallowed and the step tried again.
OnErrorRetry(pc) == pc

\* Where a raised exception takes the run: nothing in the try block catches
\* anything but KeyboardInterrupt, so the finally clause is next.
OnError(pc) == "cleanup"

\* Line 46: check_output raises on a nonzero exit status (and the template
\* write or create_work raise by themselves).
Fail(r) ==
    /\ CanFail(r)
    /\ \E keep \in BOOLEAN : gz' = GzAbandoned(r, keep)
    /\ run' = [run EXCEPT ![r] =
          Logged([@ EXCEPT !.pc = OnError(run[r].pc), !.exc = "error"], "FAIL")]
    /\ UNCHANGED <<tar, submitted>>

\* Lines 149-150: a KeyboardInterrupt inside the try block is caught.
Interrupt(r) ==
    /\ run[r].pc \in TryPcs
    /\ \E keep \in BOOLEAN : gz' = GzAbandoned(r, keep)
    /\ run' = [run EXCEPT ![r] =
          Logged([@ EXCEPT !.pc = "cleanup", !.exc = "interrupt"], "INTERRUPT")]
    /\ UNCHANGED <<tar, submitted>>

\* A KeyboardInterrupt while lines 49-53 run, after mkdtemp and before the
\* try statement of line 55, is caught by nothing in the function.
InterruptEarly(r) ==
    /\ run[r].pc = "defaults"
    /\ run' = [run EXCEPT ![r] =
          Logged([@ EXCEPT !.pc = "done", !.result = "KeyboardInterrupt"],
                 "INTERRUPT")]
    /\ UNCHANGED <<tar, gz, submitted>>

\* What the call gives its caller once the finally clause is over.
Outcome(exc, result) ==
    IF exc = "error" THEN "error"
    ELSE IF exc = "interrupt" THEN "None"
    ELSE result

\* A variant of lines 153-156 without the inner try: a failed rm -rf raises
\* out of the finally clause.
CleanupResultEscalated(ok, exc, result) ==
    IF ok THEN Outcome(exc, result) ELSE "cleanup_error"

\* Lines 153-156: try: rm -rf / except: pass. Whether or not the removal
\* worked (ok), the call ends the way it was going to end.
CleanupResult(ok, exc, result) == Outcome(exc, result)

\* Lines 151-156: rm -rf {tmpdir}; whatever it raises is swallowed.
Cleanup(r) ==
    /\ run[r].pc = "cleanup"
    /\ \E ok \in BOOLEAN :
          run' = [run EXCEPT ![r] =
              Logged([@ EXCEPT
                  !.pc = "done",
                  !.cleanup_ran = TRUE,
                  !.tmpdir = IF ok
                             THEN [exists |-> FALSE, export |-> FALSE,
                                   template |-> FALSE]
                             ELSE @,
                  !.result = CleanupResult(ok, run[r].exc, run[r].result)],
                  "cleanup")]
    /\ UNCHANGED <<tar, gz, submitted>>

(***************************************************************************)
(* Specifications.                                                         *)
(***************************************************************************)
ImageArgs == ImageRefs \cup {NoneImage}

\* The calls that vary the image; the other arguments are defaults.
ImageCalls ==
    { Call(image, NoCommand, <<>>, None, None, None) : image \in ImageArgs }

\* The calls that vary the other arguments: every command on the untagged
\* image A, and every combination of extra input files, entrypoint and hooks
\* on image B.
ArgCalls ==
    { Call([name |-> "imgA", tag |-> ""], command, <<>>, None, None, None) :
          command \in Commands }
    \cup { Call([name |-> "imgB", tag |-> "latest"], ArgsCommand(<< <<"a">> >>),
                input_files, entrypoint, hook, hook) :
              input_files \in InputFileArgs, entrypoint \in Entrypoints,
              hook \in Hooks }

\* Runs one after the other on one download dir, each ending in any of the
\* ways a run can end.
Next ==
    \/ \E call \in ImageCalls : Start(1, call)
    \/ Defaults(1)
    \/ Inspect(1)
    \/ ExistsImage(1)
    \/ ReadCached(1)
    \/ Export(1)
    \/ Script(1)
    \/ LayerStage(1)
    \/ LayerTarBegin(1)
    \/ LayerTarEnd(1)
    \/ LayerGzipBegin(1)
    \/ LayerGzipEnd(1)
    \/ ImageStage(1)
    \/ ImageTarBegin(1)
    \/ ImageTarManifest(1)
    \/ ImageTarEnd(1)
    \/ ImageGzipBegin(1)
    \/ ImageGzipEnd(1)
    \/ Template(1)
    \/ SubmitCall(1)
    \/ SubmitReturn(1)
    \/ Fail(1)
    \/ Interrupt(1)
    \/ InterruptEarly(1)
    \/ Cleanup(1)

Spec == Init /\ [][Next]_vars

\* Runs one after the other, with any arguments, in which no step raises: the
\* specification of what is rendered and staged.
NextArgs ==
    \/ \E call \in ArgCalls : Start(1, call)
    \/ Defaults(1)
    \/ Inspect(1)
    \/ ExistsImage(1)
    \/ ReadCached(1)
    \/ Export(1)
    \/ Script(1)
    \/ LayerStage(1)
    \/ LayerTarBegin(1)
    \/ LayerTarEnd(1)
    \/ LayerGzipBegin(1)
    \/ LayerGzipEnd(1)
    \/ ImageStage(1)
    \/ ImageTarBegin(1)
    \/ ImageTarManifest(1)
    \/ ImageTarEnd(1)
    \/ ImageGzipBegin(1)
    \/ ImageGzipEnd(1)
    \/ Template(1)
    \/ SubmitCall(1)
    \/ SubmitReturn(1)
    \/ Cleanup(1)

SpecArgs == Init /\ [][NextArgs]_vars

\* The calls of two runs in flight together: any image, no other argument.
ConcCalls ==
    { Call(image, NoCommand, <<>>, None, None, None) :
          image \in {i \in ImageRefs : i.tag = "latest"} }

\* Two runs in flight together on one download dir.
NextConc ==
    \E r \in Runs :
        \/ \E call \in ConcCalls : Start(r, call)
        \/ Defaults(r)
        \/ Inspect(r)
        \/ ExistsImage(r)
        \/ ReadCached(r)
        \/ Export(r)
        \/ Script(r)
        \/ LayerStage(r)
        \/ LayerTarBegin(r)
        \/ LayerTarEnd(r)
        \/ LayerGzipBegin(r)
        \/ LayerGzipEnd(r)
        \/ GzipExists(r)
        \/ ImageStage(r)
        \/ ImageTarBegin(r)
        \/ ImageTarManifest(r)
        \/ ImageTarEnd(r)
        \/ ImageGzipBegin(r)
        \/ ImageGzipEnd(r)
        \/ Template(r)
        \/ SubmitCall(r)
        \/ SubmitReturn(r)
        \/ Cleanup(r)

SpecConc == Init /\ [][NextConc]_vars

(***************************************************************************)
(* Properties.                                                             *)
(***************************************************************************)
Quiescent == \A r \in Runs : run[r].pc \in {"idle", "done"}

\* The run has staged every file: the image file is staged last (line 125).
StagedAll(r) ==
    /\ run[r].input_files # <<>>
    /\ run[r].input_files[Len(run[r].input_files)].file.kind = "image"

\* The run has decided between the cached image and an export (line 62).
Decided(r) == \E i \in 1..Len(run[r].log) : run[r].log[i] = "exists"

\* C1: a run of an image that starts after a run of the same image has
\* reached Submit on the same download dir takes the cache-hit branch, exports
\* nothing, writes no tar or gz to the cache, and stages the same layer and
\* image file names in the same order as that first run.
C1_IdempotentResubmission ==
    \A r \in Runs :
        run[r].after_submit /\ Decided(r) =>
            /\ run[r].hit
            /\ ~ run[r].need_extract
            /\ ~ run[r].exported
            /\ run[r].wrote = {}
            /\ StagedAll(r) =>
                  CacheNames(run[r].input_files) = submitted[run[r].image_id]

C1_Witness ==
    \E r \in Runs :
        /\ run[r].after_submit
        /\ run[r].image_id = 1
        /\ run[r].pc = "done"
        /\ run[r].result = "job"
        /\ Len(submitted[1]) = NumLayers + 1

\* C2: once no run is in flight, whatever the ways the earlier runs ended,
\* every file of the cache is completely written.
C2_NoPartialFileLeft ==
    Quiescent =>
        \A f \in CacheFiles :
            /\ tar[f] \in {"absent", "full"}
            /\ gz[f] \in {"absent", "full"}

\* C3: of two runs in flight together, none skips the extraction of, reads
\* the layer list from, or submits a job with a cache file the other is
\* writing, and once both are over every cache file holds what a single run
\* would have written.
C3_NoConcurrentMisuse ==
    /\ \A r \in Runs : run[r].misuse = {}
    /\ Quiescent =>
          \A f \in CacheFiles :
              /\ tar[f] \in {"absent", "full"}
              /\ gz[f] \in {"absent", "full"}

\* C4: however a call ends once mkdtemp has created the temporary directory,
\* the removal of the directory has been executed before it returns.
C4_CleanupOnEveryExit ==
    \A r \in Runs : run[r].pc = "done" => run[r].cleanup_ran

\* The file_info elements of a template, and the file_ref elements of its
\* workunit elements, in document order.
FileInfos(template) == SelectSeq(template, LAMBDA n : n.tag = "file_info")
WorkUnits(template) == SelectSeq(template, LAMBDA n : n.tag = "workunit")

TemplateBuilt(r) == run[r].template # <<>>

\* C5: the input template of N staged files holds exactly N file_info and N
\* file_ref elements; the k-th of each carries number k-1, and the k-th
\* file_ref carries the open_name of the k-th staged file.
C5_ManifestConsistency ==
    \A r \in Runs :
        TemplateBuilt(r) =>
            LET N     == Len(run[r].input_files)
                infos == FileInfos(run[r].template)
                wus   == WorkUnits(run[r].template)
            IN  /\ Len(infos) = N
                /\ Len(wus) = 1
                /\ Len(wus[1].refs) = N
                /\ \A k \in 1..N :
                      /\ infos[k].number = k - 1
                      /\ wus[1].refs[k].file_number = k - 1
                      /\ wus[1].refs[k].open_name = run[r].input_files[k].open_name

C5_Witness ==
    \E r \in Runs :
        /\ TemplateBuilt(r)
        /\ Len(run[r].input_files) >= 4
        /\ run[r].input_files[1].open_name.base = "foo"
        /\ run[r].input_files[2].open_name.base = "boinc_app"

ScriptBuilt(r) == \E i \in 1..Len(run[r].log) : run[r].log[i] = "script"

\* C6: a command given as one string renders the same quoted command text
\* in the script as the list of its words.
C6_CommandNormalization ==
    \A r \in Runs :
        /\ ScriptBuilt(r)
        /\ run[r].command.type = "str"
        /\ Split(run[r].command.text) # <<>>
        => run[r].script.command
              = RenderCommand(ArgsCommand(Split(run[r].command.text)))

\* The layer files of a sequence of file names, in its order.
LayersOf(files) == SelectSeq(files, LAMBDA f : f.kind = "layer")

ManifestFiles(r) ==
    [k \in 1..Len(run[r].manifest) |-> LayerFilename(run[r].manifest[k])]

C8_StagedFilesExistAtSubmit ==
    \A r \in Runs :
        run[r].pc = "submitting" =>
            \A k \in 1..Len(run[r].input_files) :
                run[r].input_files[k].file.kind # "inline" =>
                    /\ tar[run[r].input_files[k].file] # "absent"
                    /\ gz[run[r].input_files[k].file] # "absent"

\* The steps a run executed after its first step named step.
After(r, step) ==
    LET log == run[r].log
        at  == { i \in 1..Len(log) : log[i] = step }
    IN  IF at = {} THEN <<>>
        ELSE LET first == CHOOSE i \in at : \A j \in at : i <= j
             IN  SubSeq(log, first + 1, Len(log))

Happened(r, step) == \E i \in 1..Len(run[r].log) : run[r].log[i] = step

\* C9: a run that was interrupted ends with the cleanup executed, returns
\* None to its caller instead of raising, and calls Submit no more.
C9_InterruptIsCleanAbandon ==
    \A r \in Runs :
        Happened(r, "INTERRUPT") =>
            /\ \A i \in 1..Len(After(r, "INTERRUPT")) :
                  After(r, "INTERRUPT")[i] = "cleanup"
            /\ run[r].pc = "done" =>
                  /\ run[r].cleanup_ran
                  /\ run[r].result = "None"

\* C10: once an external step of a run has failed, the run executes nothing
\* but the cleanup (no later step, no second try, no Submit), and it ends by
\* raising the error to its caller, after the cleanup.
C10_FailuresAreFatal ==
    \A r \in Runs :
        Happened(r, "FAIL") =>
            /\ \A i \in 1..Len(After(r, "FAIL")) : After(r, "FAIL")[i] = "cleanup"
            /\ Len(After(r, "FAIL")) <= 1
            /\ run[r].pc \in {"cleanup", "done"}
            /\ run[r].pc = "done" =>
                  /\ run[r].cleanup_ran
                  /\ run[r].result = "error"

C10_Witness ==
    \E r \in Runs :
        /\ Happened(r, "FAIL")
        /\ run[r].submit_called
        /\ run[r].pc = "done"
        /\ run[r].result = "error"

\* The positions, in the root's document order, of the nodes with a tag.
Positions(template, tag) ==
    { p \in 1..Len(template) : template[p].tag = tag }

\* C11: in the generated input template the root holds the file_info
\* declarations of all staged files in index order, and the single workunit
\* node, with one file_ref carrying copy_file per staged file, comes after
\* all of those declarations.
C11_WorkunitAfterDeclarations ==
    \A r \in Runs :
        TemplateBuilt(r) =>
            LET N     == Len(run[r].input_files)
                t     == run[r].template
                infos == FileInfos(t)
                wus   == WorkUnits(t)
            IN  /\ Len(infos) = N
                /\ \A k \in 1..N : infos[k].number = k - 1
                /\ Len(wus) = 1
                /\ Len(wus[1].refs) = N
                /\ \A k \in 1..N : wus[1].refs[k].copy_file
                /\ \A w \in Positions(t, "workunit") :
                      \A d \in Positions(t, "file_info") : d < w

\* The markers of a file_info as a bag: how many times each marker occurs.
Markers(flags) ==
    [m \in {flags[i] : i \in 1..Len(flags)} |->
        Cardinality({i \in 1..Len(flags) : flags[i] = m})]

\* C12: for every staged file, its file_info carries exactly one marker per
\* flag of that file's flags and no other marker; every layer file and the
\* image file are declared with exactly sticky, no_delete and gzip, and the
\* boinc_app script with no marker.
C12_FlagFidelity ==
    \A r \in Runs :
        TemplateBuilt(r) =>
            LET N     == Len(run[r].input_files)
                infos == FileInfos(run[r].template)
            IN  /\ Len(infos) = N
                /\ \A k \in 1..N :
                      LET staged == run[r].input_files[k]
                      IN  /\ Markers(infos[k].flags) = Markers(staged.flags)
                          /\ staged.file.kind \in {"layer", "image"} =>
                                Markers(infos[k].flags) =
                                    [m \in {"sticky", "no_delete", "gzip"} |-> 1]
                          /\ staged.open_name.base = "boinc_app" =>
                                infos[k].flags = <<>>

C12_Witness ==
    \E r \in Runs :
        /\ TemplateBuilt(r)
        /\ Len(run[r].manifest) = NumLayers
        /\ \E k \in 1..Len(run[r].input_files) :
              /\ run[r].input_files[k].file.kind = "layer"
              /\ FileInfos(run[r].template)[k].flags = layer_flags
        /\ \E k \in 1..Len(run[r].input_files) :
              /\ run[r].input_files[k].open_name.base = "boinc_app"
              /\ FileInfos(run[r].template)[k].flags = <<>>

\* The reference docker resolves when a caller names an image with the tag
\* latest.
Latest(image) == [name |-> image.name, tag |-> "latest"]

\* The run was given its image without a tag, or with the tag latest.
LatestOrUntagged(r) ==
    /\ run[r].call.image # NoneImage
    /\ run[r].call.image.tag \in {"", "latest"}

\* C13: a run given an image without a tag behaves as a run given the same
\* name with the tag latest: past line 53 both hold the reference name:latest,
\* both resolve the image id of name:latest, name their image file after it,
\* and decide between cache hit and export by whether that file exists.
C13_TagDefaulting ==
    [][\A r \in Runs :
          LatestOrUntagged(r) =>
              LET latest   == Latest(run[r].call.image)
                  image_id == DockerId(latest)
              IN  /\ Happened(r, "defaults")' => run'[r].image = latest
                  /\ Happened(r, "inspect")' => run'[r].image_id = image_id
                  /\ (~Decided(r) /\ Decided(r)') =>
                        /\ run'[r].need_extract = ~Exists(ImageFilename(image_id))
                        /\ run'[r].hit = Exists(ImageFilename(image_id))
                  /\ StagedAll(r)' =>
                        run'[r].input_files[Len(run'[r].input_files)].file
                            = ImageFilename(image_id)
      ]_vars

C13_Witness ==
    \E r \in Runs :
        /\ run[r].call.image.name = "imgA"
        /\ run[r].call.image.tag = ""
        /\ run[r].hit
        /\ StagedAll(r)
        /\ \E f \in CacheFiles :
              /\ f.kind = "image"
              /\ f.id = run[r].image_id
              /\ Exists(f)

\* The layer loop of run r moves on from its current layer in this step.
LayerDone(r) ==
    /\ run[r].pc \in {"layer", "layer_gz_w"}
    /\ run'[r].pc = "layer"
    /\ run'[r].li = run[r].li + 1

\* C14: runs one after the other never touch a file they find in the cache.
\* A run takes up for writing only files that are absent; a file no run is
\* writing keeps its tar and its gz; in a run that exports, the loop leaves a
\* layer whose tar is present as it is and leaves an absent layer with its
\* tar and its gz written in full; no tar is ever removed, no finished gz is
\* ever changed or removed, and a gz goes away only as the unfinished output
\* of the run's own gzip when that step is cut short.
C14_CacheFilesUntouched ==
    [][/\ \A f \in CacheFiles :
             /\ \A r \in Runs :
                   (f \notin run[r].wrote /\ f \in run'[r].wrote) => ~ Exists(f)
             /\ (\A r \in Runs : f \notin run'[r].wrote) =>
                   (tar'[f] = tar[f] /\ gz'[f] = gz[f])
             /\ tar[f] # "absent" => tar'[f] # "absent"
             /\ gz[f] \in {"full", "bad"} => gz'[f] = gz[f]
             /\ (gz[f] # "absent" /\ gz'[f] = "absent") =>
                   \E r \in Runs : f \in WritingGz(r) /\ run'[r].exc # "none"
       /\ \A r \in Runs :
             (run[r].need_extract /\ LayerDone(r)) =>
                 LET f == CurrentLayerFile(r)
                 IN  IF f \in run'[r].wrote
                     THEN tar'[f] = "full" /\ gz'[f] = "full"
                     ELSE Exists(f) /\ tar' = tar /\ gz' = gz
      ]_vars

C14_Witness ==
    \E r \in Runs :
        /\ run[r].need_extract
        /\ run[r].submit_called
        /\ run[r].exc = "none"
        /\ Len(run[r].manifest) = NumLayers
        /\ \E f \in CacheFiles :
              /\ f.kind = "layer"
              /\ f \notin run[r].wrote
              /\ tar[f] = "part"
        /\ \E f \in CacheFiles :
              /\ f.kind = "layer"
              /\ f \in run[r].wrote
              /\ tar[f] = "full"
              /\ gz[f] = "full"

\* C15: the file list handed to create_work is as long as the staged-file
\* sequence and its i-th element is the backing file of the staged file whose
\* file_info and file_ref carry the number i; the caller's input files come
\* first, then the boinc_app script, then the layers in the order of the image
\* manifest, then the image file; the template handed over is the one just
\* written into the temporary directory.
C15_SubmitReceivesFilesInOrder ==
    \A r \in Runs :
        run[r].submit_called =>
            LET N      == Len(run[r].input_files)
                files  == run[r].submit_files
                infos  == FileInfos(run[r].template)
                wus    == WorkUnits(run[r].template)
                custom == CustomFiles(run[r].call.input_files)
                layers == ManifestLayers(run[r].image_id)
                C      == Len(custom)
                L      == Len(layers)
            IN  /\ Len(files) = N
                /\ Len(infos) = N
                /\ Len(wus) = 1
                /\ Len(wus[1].refs) = N
                /\ \A k \in 1..N :
                      /\ infos[k].number = k - 1
                      /\ wus[1].refs[k].file_number = k - 1
                      /\ wus[1].refs[k].open_name = run[r].input_files[k].open_name
                      /\ files[k] = run[r].input_files[k].file
                /\ N = C + 1 + L + 1
                /\ \A k \in 1..C : files[k] = custom[k].file
                /\ files[C + 1] = InlineFile("boinc_app", "script")
                /\ \A k \in 1..L : files[C + 1 + k] = LayerFilename(layers[k])
                /\ files[N] = ImageFilename(run[r].image_id)
                /\ run[r].wu_template # <<>>
                /\ run[r].wu_template = BuildTemplate(run[r].input_files)

C15_Witness ==
    \E r \in Runs :
        /\ run[r].submit_called
        /\ Len(run[r].call.input_files) = 1
        /\ Len(run[r].submit_files) = 4
        /\ run[r].submit_files[1].base = "foo"
        /\ run[r].submit_files[3].kind = "layer"

\* The removal of the temporary directory was tried and failed: the finally
\* clause ran and the directory is still there.
CleanupFailed(r) ==
    /\ run[r].pc = "done"
    /\ run[r].cleanup_ran
    /\ run[r].tmpdir.exists

\* C16: a run whose removal of the temporary directory fails ends as it would
\* have ended: a run whose create_work returned returns the job name, and a
\* run in which a step raised ends with that error, never with the error of
\* the removal.
C16_CleanupFailureNotEscalated ==
    \A r \in Runs :
        CleanupFailed(r) =>
            /\ run[r].result # "cleanup_error"
            /\ Happened(r, "FAIL") => run[r].result = "error"
            /\ (~ Happened(r, "FAIL") /\ ~ Happened(r, "INTERRUPT")) =>
                  (run[r].submit_called /\ run[r].result = "job")

C16_Witness ==
    \E r \in Runs :
        /\ CleanupFailed(r)
        /\ run[r].submit_called
        /\ run[r].result = "job"

\* C17: in every state of runs one after the other on one download dir,
\* failed and interrupted runs included, an image file that exists in the
\* cache has the layer file of every layer of its manifest in the cache too.
C17_ImageFileIsCommitMarker ==
    \A i \in ImageIds :
        Exists(ImageFilename(i)) =>
            \A k \in 1..Len(ManifestLayers(i)) :
                Exists(LayerFilename(ManifestLayers(i)[k]))

C17_Witness ==
    \E i \in ImageIds :
        /\ Exists(ImageFilename(i))
        /\ Len(ManifestLayers(i)) = NumLayers
        /\ \E r \in Runs : Happened(r, "FAIL") /\ run[r].image_id = i

\* C18: the template is written into the run's temporary directory before
\* create_work is called, the directory and the template in it are there for
\* as long as create_work runs, and the directory is removed only by the
\* finally clause, after create_work has returned or raised.
C18_TemplateOutlivesSubmit ==
    [][\A r \in Runs :
          /\ (~ run[r].submit_called /\ run'[r].submit_called) =>
                /\ Happened(r, "template")
                /\ run[r].tmpdir.exists /\ run[r].tmpdir.template
                /\ run'[r].wu_template = run[r].template
          /\ run'[r].pc = "submitting" =>
                /\ run'[r].tmpdir.exists /\ run'[r].tmpdir.template
                /\ ~ run'[r].cleanup_ran
          /\ (run[r].tmpdir.exists /\ ~ run'[r].tmpdir.exists) =>
                /\ run[r].pc = "cleanup"
                /\ run[r].submit_called =>
                      (run[r].result = "job" \/ run[r].exc # "none")
      ]_vars

C18_Witness ==
    \E r \in Runs :
        /\ run[r].submit_called
        /\ run[r].result = "job"
        /\ run[r].cleanup_ran
        /\ ~ run[r].tmpdir.exists
        /\ run[r].wu_template # <<>>

\* C19: a run called without a command (command omitted or None) renders a
\* docker run line with no command argument after the image, the same text as
\* a run called with an empty argument list.
C19_NoCommandNoArguments ==
    \A r \in Runs :
        (ScriptBuilt(r) /\ run[r].call.command = NoCommand) =>
            /\ run[r].script.command = <<>>
            /\ run[r].script.command = RenderCommand(ArgsCommand(<<>>))

====
